---- MODULE Spec2Model ----
(***************************************************************************)
(* Model of class ExtrinsicContact of                                      *)
(* isaacgyminsertion/tasks/factory_tactile/factory_env_insertion.py.       *)
(*                                                                         *)
(* Numbers.  Lengths are integers, one unit = 0.0001 length units, so the  *)
(* default threshold 0.002 is 20.  A contact score is the exact rational   *)
(* num/den with den = threshold: the model stores the numerator and the    *)
(* denominator.  A mesh is the sequence of its vertices (trimesh's         *)
(* vertices array); its surface is represented by these lattice points and *)
(* the distance of a point to the surface is the L1 distance to the        *)
(* nearest of them, which is the Euclidean distance for the axis-aligned   *)
(* displacements used here.  Rotations are the signed permutation matrices *)
(* (the rotation group of the cube), on which quaternion conversion, cross *)
(* product, normalisation and the axis-angle formula are exact in integer  *)
(* arithmetic.  A float NaN is the value NaN, which every arithmetic       *)
(* operator propagates.                                                    *)
(***************************************************************************)
EXTENDS Integers, Sequences, FiniteSets, TLC

\* Bounds of the model: the num_envs and num_points the estimator is built with.
NumEnvs == 2
NumPoints == 6

\* threshold=0.002 in units of 0.0001
DefaultThreshold == 20
\* d[d > 0.1] = 1.0 : the cutoff 0.1 is 1/CutoffDen
CutoffDen == 10
\* np.random.uniform(0.0, 0.1) : the upper limit 0.1 is 1/FracLimitDen
FracLimitDen == 10

\* the float values nan and inf
NaN == 0 - 999999
Inf == 0 - NaN

VARIABLES
    calc_contact,           \* self.calc_contact
    socket_scale,           \* the socket_scale argument of __init__
    reset_socket_trimesh,   \* self.reset_socket_trimesh
    socket_trimesh,         \* self.socket_trimesh
    socket_pos,             \* self.socket_pos
    socket_pcl,             \* self.socket_pcl
    socket_pc,              \* self.socket_pc
    socket,                 \* self.socket (the RaycastingScene), or unset
    object_trimesh,         \* self.object_trimesh
    pointcloud_obj,         \* self.pointcloud_obj
    object_pc,              \* self.object_pc
    n_points,               \* self.n_points
    num_envs,               \* self.num_envs
    plug_pose_no_rot,       \* self.plug_pose_no_rot
    gt_extrinsic_contact,   \* self.gt_extrinsic_contact, numerators over DefaultThreshold
    step,                   \* self.step, NoStep until reset_extrinsic_contact creates it
    pc,                     \* the line reset_socket_pos is at, or "idle"
    arg,                    \* the socket_pos argument of the running reset_socket_pos
    pre,                    \* the socket fields when the last reset_socket_pos was called
    resets_completed,       \* whether a reset_socket_pos has run to its end
    video_frames,           \* FactoryEnvInsertionTactile.video_frames
    ft_frames,              \* FactoryEnvInsertionTactile.ft_frames
    record_now,             \* FactoryEnvInsertionTactile.record_now
    record_now_ft,          \* FactoryEnvInsertionTactile.record_now_ft
    complete_video_frames,  \* FactoryEnvInsertionTactile.complete_video_frames
    complete_ft_frames,     \* FactoryEnvInsertionTactile.complete_ft_frames
    ret                     \* the last call: its arguments, locals and result

vars == <<calc_contact, socket_scale, reset_socket_trimesh, socket_trimesh, socket_pos,
          socket_pcl, socket_pc, socket, object_trimesh, pointcloud_obj, object_pc,
          n_points, num_envs, plug_pose_no_rot, gt_extrinsic_contact, step, pc, arg, pre,
          resets_completed, video_frames, ft_frames, record_now, record_now_ft,
          complete_video_frames, complete_ft_frames, ret>>

estimator == <<calc_contact, socket_scale, reset_socket_trimesh, socket_trimesh, socket_pos,
               socket_pcl, socket_pc, socket, object_trimesh, pointcloud_obj, object_pc,
               n_points, num_envs, plug_pose_no_rot, gt_extrinsic_contact, step>>

\* the recording fields of the environment that owns the estimator
recording == <<video_frames, ft_frames, record_now, record_now_ft, complete_video_frames,
               complete_ft_frames>>

----------------------------------------------------------------------------
(* Floating-point arithmetic with nan *)

IsNaN(a) == a = NaN

\* A number a + b * eps, eps a positive quantity so small that eps * eps is below
\* every tolerance and counts as 0, is held as the integer a + b * Eps (|a| < Eps / 2);
\* a number without eps part is the integer itself.
Eps == 10000000

EpsPart(x) == (x + Eps \div 2) \div Eps

StdPart(x) == x - EpsPart(x) * Eps

HasEps(x) == EpsPart(x) # 0

FAdd(a, b) == IF IsNaN(a) \/ IsNaN(b) THEN NaN ELSE a + b

FSub(a, b) == IF IsNaN(a) \/ IsNaN(b) THEN NaN ELSE a - b

FMul(a, b) ==
    IF IsNaN(a) \/ IsNaN(b) THEN NaN
    ELSE IF HasEps(a) \/ HasEps(b)
         THEN StdPart(a) * StdPart(b)
                  + (StdPart(a) * EpsPart(b) + EpsPart(a) * StdPart(b)) * Eps
         ELSE a * b

Abs(a) == IF a < 0 THEN 0 - a ELSE a

\* a / b of numpy for numbers without eps part: 0/0 is nan, x/0 is +-inf, no
\* exception (the quotients taken in this model are exact)
Quotient(a, b) ==
    IF b = 0 THEN (IF a = 0 THEN NaN ELSE IF a > 0 THEN Inf ELSE 0 - Inf)
    ELSE IF a < 0 THEN 0 - ((0 - a) \div b) ELSE a \div b

\* a / b of numpy; (a + b eps) / c and (a eps) / (c eps) for numbers with eps part
FDiv(a, b) ==
    IF IsNaN(a) \/ IsNaN(b) THEN NaN
    ELSE IF HasEps(a) /\ ~HasEps(b) /\ b # 0
         THEN Quotient(StdPart(a), b) + Quotient(EpsPart(a), b) * Eps
    ELSE IF HasEps(a) /\ HasEps(b) /\ StdPart(a) = 0 /\ StdPart(b) = 0
         THEN Quotient(EpsPart(a), EpsPart(b))
    ELSE Quotient(a, b)

Min(a, b) == IF a <= b THEN a ELSE b

Max(a, b) == IF a >= b THEN a ELSE b

\* np.clip(a, lo, hi); nan stays nan
Clip(a, lo, hi) == IF IsNaN(a) THEN NaN ELSE Min(Max(a, lo), hi)

\* the array s with every entry computed
Arr(s) == s \o <<>>

RECURSIVE SeqSum(_)
SeqSum(s) == IF s = <<>> THEN 0 ELSE FAdd(Head(s), SeqSum(Tail(s)))

SetMin(S) == CHOOSE x \in S : \A y \in S : x <= y

RECURSIVE Flatten(_)
Flatten(ss) == IF ss = <<>> THEN <<>> ELSE Head(ss) \o Flatten(Tail(ss))

\* the k-element subsets of S
RECURSIVE KSubsets(_, _)
KSubsets(S, k) ==
    IF k = 0 THEN {{}}
    ELSE UNION {{Z \cup {x} : Z \in KSubsets(S \ {x}, k - 1)} : x \in S}

----------------------------------------------------------------------------
(* Vectors and matrices *)

Eye3 == <<<<1, 0, 0>>, <<0, 1, 0>>, <<0, 0, 1>>>>

Eye4 == <<<<1, 0, 0, 0>>, <<0, 1, 0, 0>>, <<0, 0, 1, 0>>, <<0, 0, 0, 1>>>>

\* A @ B for an m x k and a k x n matrix
MatMul(A, B) ==
    Arr([i \in 1..Len(A) |->
        Arr([j \in 1..Len(B[1]) |->
            SeqSum(Arr([k \in 1..Len(B) |-> FMul(A[i][k], B[k][j])]))])])

Transpose(A) == Arr([j \in 1..Len(A[1]) |-> Arr([i \in 1..Len(A) |-> A[i][j]])])

\* R.from_quat(q).as_matrix() for q = (x, y, z, w): the quaternion is normalised,
\* so every entry is a quadratic form of q divided by |q|^2
QuatToMatrix(q) ==
    LET x == q[1]
        y == q[2]
        z == q[3]
        w == q[4]
        n == x * x + y * y + z * z + w * w
    IN  <<<<FDiv(n - 2 * (y * y + z * z), n), FDiv(2 * (x * y - z * w), n), FDiv(2 * (x * z + y * w), n)>>,
          <<FDiv(2 * (x * y + z * w), n), FDiv(n - 2 * (x * x + z * z), n), FDiv(2 * (y * z - x * w), n)>>,
          <<FDiv(2 * (x * z - y * w), n), FDiv(2 * (y * z + x * w), n), FDiv(n - 2 * (x * x + y * y), n)>>>>

\* one row [x, y, z, qx, qy, qz, qw] as a 4 x 4 transform
XyzquatRow(pq) ==
    LET Rm == QuatToMatrix(<<pq[4], pq[5], pq[6], pq[7]>>)
    IN  <<<<Rm[1][1], Rm[1][2], Rm[1][3], pq[1]>>,
          <<Rm[2][1], Rm[2][2], Rm[2][3], pq[2]>>,
          <<Rm[3][1], Rm[3][2], Rm[3][3], pq[3]>>,
          <<0, 0, 0, 1>>>>

\* _xyzquat_to_tf_numpy: an array with its shape; T.squeeze() drops the batch axis of
\* a batch of one
xyzquat_to_tf_numpy(position_quat) ==
    LET N == Len(position_quat)
        T == Arr([i \in 1..N |-> XyzquatRow(position_quat[i])])
    IN  IF N = 1 THEN [shape |-> <<4, 4>>, data |-> T[1]]
        ELSE [shape |-> <<N, 4, 4>>, data |-> T]

\* if len(poses.shape) == 2: poses = poses[None, ...]
Unsqueeze(a) == IF Len(a.shape) = 2 THEN <<a.data>> ELSE a.data

\* line 129: np.matmul of the N x 4 x 4 poses with the N x (dim + 1) x count stack
\* raises ValueError unless dim + 1 = 4
MatmulShapesOk(pc_vertices) == \A p \in 1..Len(pc_vertices) : Len(pc_vertices[p]) + 1 = 4

\* a transform of every instance's points by the first pose
apply_transform_first(poses, pc_vertices) ==
    Arr([n \in 1..Len(poses) |->
            Arr([p \in 1..Len(pc_vertices) |->
                    Arr([c \in 1..3 |->
                            SeqSum(Arr([k \in 1..4 |->
                                FMul(poses[1][c][k], (pc_vertices[p] \o <<1>>)[k])]))])])])

\* apply_transform(poses, pc_vertices): N x P x 3
apply_transform(poses, pc_vertices) ==
    LET count == Len(pc_vertices)
        pc_vertices_wtrans == Arr([p \in 1..count |-> pc_vertices[p] \o <<1>>])
        stack == Arr([n \in 1..Len(poses) |-> pc_vertices_wtrans])
        transformed == Arr([n \in 1..Len(poses) |->
                               Transpose(MatMul(poses[n], Transpose(stack[n])))])
    IN  Arr([n \in 1..Len(poses) |->
                Arr([p \in 1..count |-> SubSeq(transformed[n][p], 1, 3)])])

----------------------------------------------------------------------------
(* Meshes, surface samples and the distance field *)

\* trimesh.load(mesh_socket): the socket mesh as stored in its file
SocketMeshFile == [k \in 1..(NumPoints + 1) |-> <<k - 1, 0, 0>>]

\* trimesh.load(mesh_obj): the plug mesh as stored in its file
PlugMeshFile == [k \in 1..NumPoints |-> <<0, 0, k - 1>>]

\* mesh.apply_scale(s)
apply_scale(mesh, s) == Arr([k \in 1..Len(mesh) |-> Arr([c \in 1..3 |-> mesh[k][c] * s])])

\* T = np.eye(4); T[0:3, -1] = socket_pos; mesh.apply_transform(T)
MeshTranslate(mesh, p) ==
    Arr([k \in 1..Len(mesh) |-> Arr([c \in 1..3 |-> mesh[k][c] + p[c]])])

\* the numbers of points the sampler delivers when it is asked for count: it samples
\* by rejection (points too close to one another are dropped), so it returns count
\* points or fewer
SampleCounts(count) == {count \div 2, count}

\* trimesh.sample.sample_surface_even(mesh, count)[0] without a seed: any sample of
\* the surface of one of these sizes, here the runs of count consecutive vertices
\* and the first vertices of the mesh for a smaller size
sample_surface_even(mesh, count) ==
    {SubSeq(mesh, o + 1, o + count) : o \in 0..(Len(mesh) - count)}
        \cup {SubSeq(mesh, 1, k) : k \in SampleCounts(count) \ {count}}

\* o3d.t.geometry.RaycastingScene()
NewScene == [state |-> "empty", triangles |-> <<>>]

\* add_triangles that leaves the scene without triangles
add_triangles_nothing(scene, mesh) == scene

\* scene.add_triangles(mesh)
add_triangles(scene, mesh) == [state |-> "built", triangles |-> mesh]

Unset == [state |-> "unset", triangles |-> <<>>]

L1(a, b) == Abs(a[1] - b[1]) + Abs(a[2] - b[2]) + Abs(a[3] - b[3])

\* scene.compute_distance(points): per point the distance to the closest point of
\* the scene's surface, inf for a scene without triangles
compute_distance(scene, points) ==
    Arr([i \in 1..Len(points) |->
        IF scene.triangles = <<>> THEN Inf
        ELSE SetMin({L1(points[i], scene.triangles[k]) : k \in 1..Len(scene.triangles)})])

\* np.repeat(np.eye(4)[np.newaxis, :, :], num_envs, axis=0)
IdentityPoses(n) == [i \in 1..n |-> Eye4]

\* torch.zeros((rows, cols))
Zeros(rows, cols) == [i \in 1..rows |-> [j \in 1..cols |-> 0]]

\* the attribute self.step does not exist before reset_extrinsic_contact assigns it
NoStep == 0 - 1

----------------------------------------------------------------------------
(* ExtrinsicContact.__init__ *)

SocketScales == {1, 2}

InitSocketPositions == {<<5, 0, 0>>}

NoCall == [op |-> "none", status |-> "ok"]

\* a frame list attribute that holds None, and one that holds the list l
NoFrameList == [is_none |-> TRUE, list |-> <<>>]

FrameList(l) == [is_none |-> FALSE, list |-> l]

Running == [op |-> "reset_socket_pos", status |-> "running"]

Init ==
    /\ calc_contact \in BOOLEAN
    /\ socket_scale \in SocketScales
    /\ reset_socket_trimesh = SocketMeshFile
    /\ socket_trimesh = apply_scale(SocketMeshFile, socket_scale)
    /\ socket_pos \in InitSocketPositions
    /\ n_points = NumPoints
    /\ num_envs = NumEnvs
    /\ socket_pcl \in sample_surface_even(socket_trimesh, n_points)
    /\ socket_pc = socket_pcl
    /\ socket = IF calc_contact THEN add_triangles(NewScene, socket_trimesh) ELSE Unset
    /\ object_trimesh = apply_scale(PlugMeshFile, 1)
    /\ pointcloud_obj \in sample_surface_even(object_trimesh, n_points)
    /\ object_pc = pointcloud_obj
    /\ plug_pose_no_rot = IdentityPoses(num_envs)
    /\ gt_extrinsic_contact = Zeros(num_envs, n_points)
    /\ step = NoStep
    /\ pc = "idle"
    /\ arg = <<>>
    /\ pre = <<>>
    /\ resets_completed = FALSE
    /\ video_frames = <<>>
    /\ ft_frames = <<>>
    /\ record_now = FALSE
    /\ record_now_ft = FALSE
    /\ complete_video_frames = NoFrameList
    /\ complete_ft_frames = NoFrameList
    /\ ret = NoCall

----------------------------------------------------------------------------
(* ExtrinsicContact.reset_socket_pos, one action per stretch of lines *)

\* the socket_pos arguments: positions, and an array that is no 3-vector
ResetPositions == {<<0, 0, 5>>, <<5, 0>>}

SocketFields == <<socket_trimesh, socket_pos, socket, socket_pcl>>

\* a reset that goes on from the current mesh instead of the saved copy
ResetCopy_from_current(p) ==
    /\ pc = "idle"
    /\ ret = NoCall
    /\ pre' = SocketFields
    /\ arg' = p
    /\ socket_trimesh' = apply_scale(socket_trimesh, 1)
    /\ socket_pos' = p
    /\ pc' = "l139"
    /\ ret' = Running
    /\ UNCHANGED recording
    /\ UNCHANGED <<calc_contact, socket_scale, reset_socket_trimesh, socket_pcl, socket_pc,
                   socket, object_trimesh, pointcloud_obj, object_pc, n_points, num_envs,
                   plug_pose_no_rot, resets_completed,
                   gt_extrinsic_contact, step>>

\* lines 135-137: copy the base mesh, apply_scale(1.0), store socket_pos
ResetCopy(p) ==
    /\ pc = "idle"
    /\ ret = NoCall
    /\ pre' = SocketFields
    /\ arg' = p
    /\ socket_trimesh' = apply_scale(reset_socket_trimesh, 1)
    /\ socket_pos' = p
    /\ pc' = "l139"
    /\ ret' = Running
    /\ UNCHANGED recording
    /\ UNCHANGED <<calc_contact, socket_scale, reset_socket_trimesh, socket_pcl, socket_pc,
                   socket, object_trimesh, pointcloud_obj, object_pc, n_points, num_envs,
                   plug_pose_no_rot, resets_completed,
                   gt_extrinsic_contact, step>>

\* lines 138-140: T[0:3, -1] = self.socket_pos raises ValueError unless socket_pos
\* has three entries; otherwise the mesh is translated in place
ResetTransform ==
    /\ pc = "l139"
    /\ IF Len(socket_pos) = 3
       THEN /\ socket_trimesh' = MeshTranslate(socket_trimesh, socket_pos)
            /\ pc' = "l150"
            /\ UNCHANGED ret
       ELSE /\ pc' = "idle"
            /\ ret' = [op |-> "reset_socket_pos", status |-> "error"]
            /\ UNCHANGED socket_trimesh
    /\ UNCHANGED recording
    /\ UNCHANGED <<calc_contact, socket_scale, reset_socket_trimesh, socket_pos, socket_pcl,
                   socket_pc, socket, object_trimesh, pointcloud_obj, object_pc, n_points,
                   num_envs, plug_pose_no_rot, arg, pre, resets_completed,
                   gt_extrinsic_contact, step>>

\* line 150: self.socket = o3d.t.geometry.RaycastingScene()
ResetNewScene ==
    /\ pc = "l150"
    /\ socket' = NewScene
    /\ pc' = "l151"
    /\ UNCHANGED recording
    /\ UNCHANGED <<calc_contact, socket_scale, reset_socket_trimesh, socket_trimesh,
                   socket_pos, socket_pcl, socket_pc, object_trimesh, pointcloud_obj,
                   object_pc, n_points, num_envs, plug_pose_no_rot, arg, pre,
                   resets_completed, ret,
                   gt_extrinsic_contact, step>>

\* line 151: self.socket.add_triangles(...)
ResetAddTriangles ==
    /\ pc = "l151"
    /\ socket' = add_triangles(socket, socket_trimesh)
    /\ pc' = "l153"
    /\ UNCHANGED recording
    /\ UNCHANGED <<calc_contact, socket_scale, reset_socket_trimesh, socket_trimesh,
                   socket_pos, socket_pcl, socket_pc, object_trimesh, pointcloud_obj,
                   object_pc, n_points, num_envs, plug_pose_no_rot, arg, pre,
                   resets_completed, ret,
                   gt_extrinsic_contact, step>>

\* lines 153-154: resample the socket, reset the tracked pose, return
ResetResample ==
    /\ pc = "l153"
    /\ socket_pcl' \in sample_surface_even(socket_trimesh, n_points)
    /\ plug_pose_no_rot' = IdentityPoses(num_envs)
    /\ pc' = "idle"
    /\ resets_completed' = TRUE
    /\ ret' = [op |-> "reset_socket_pos", status |-> "ok"]
    /\ UNCHANGED recording
    /\ UNCHANGED <<calc_contact, socket_scale, reset_socket_trimesh, socket_trimesh,
                   socket_pos, socket_pc, socket, object_trimesh, pointcloud_obj,
                   object_pc, n_points, num_envs, arg, pre,
                   gt_extrinsic_contact, step>>

reset_socket_pos ==
    \/ \E p \in ResetPositions : ResetCopy(p)
    \/ ResetTransform
    \/ ResetNewScene
    \/ ResetAddTriangles
    \/ ResetResample

----------------------------------------------------------------------------
(* ExtrinsicContact.reset_extrinsic_contact and the accumulator it clears *)

\* the rows of scores a caller accumulates, as numerators over DefaultThreshold
AccumulatorRows ==
    {[c \in 1..NumPoints |-> 0], [c \in 1..NumPoints |-> DefaultThreshold],
     [c \in 1..NumPoints |-> c]}

\* the owner of the estimator stores scores in the public accumulator
WriteContact ==
    /\ pc = "idle"
    /\ ret = NoCall
    /\ \E v \in [1..num_envs -> AccumulatorRows] :
          /\ v # gt_extrinsic_contact
          /\ gt_extrinsic_contact' = v
    /\ UNCHANGED recording
    /\ UNCHANGED <<calc_contact, socket_scale, reset_socket_trimesh, socket_trimesh,
                   socket_pos, socket_pcl, socket_pc, socket, object_trimesh,
                   pointcloud_obj, object_pc, n_points, num_envs, plug_pose_no_rot, step,
                   pc, arg, pre, resets_completed, ret>>

\* an in-place product that leaves the array as it is
MulInPlace_kept(a, k) == a

\* a *= k on a two-dimensional array
MulInPlace(a, k) ==
    Arr([i \in 1..Len(a) |-> Arr([j \in 1..Len(a[i]) |-> FMul(a[i][j], k)])])

\* the fields reset_extrinsic_contact has no business with
OtherFields ==
    <<reset_socket_trimesh, socket_trimesh, socket_pos, socket_pcl, socket_pc, socket,
      object_trimesh, pointcloud_obj, object_pc, n_points, num_envs, plug_pose_no_rot>>

\* lines 123-124
reset_extrinsic_contact ==
    /\ pc = "idle"
    /\ ret = NoCall
    /\ gt_extrinsic_contact' = MulInPlace(gt_extrinsic_contact, 0)
    /\ step' = 0
    /\ pre' = OtherFields
    /\ ret' = [op |-> "reset_extrinsic_contact", status |-> "ok",
               before |-> gt_extrinsic_contact]
    /\ UNCHANGED recording
    /\ UNCHANGED <<calc_contact, socket_scale, reset_socket_trimesh, socket_trimesh,
                   socket_pos, socket_pcl, socket_pc, socket, object_trimesh,
                   pointcloud_obj, object_pc, n_points, num_envs, plug_pose_no_rot,
                   pc, arg, resets_completed>>

----------------------------------------------------------------------------
(* ExtrinsicContact.get_extrinsic_contact *)

\* the clamp with far points set to 0 instead of threshold
ClampDistance_zero(d, threshold) == Clip(IF d > threshold THEN 0 ELSE d, 0, threshold)

\* lines 273-276: d[np.where(d > threshold)] = threshold; d = np.clip(d, 0.0, threshold)
ClampDistance(d, threshold) == Clip(IF d > threshold THEN threshold ELSE d, 0, threshold)

\* the score without either clip
Closeness_unclipped(d, threshold) == threshold - d

\* lines 279-280: d = 1.0 - d / threshold; d = np.clip(d, 0.0, 1.0), as a numerator
\* over the denominator threshold
Closeness(d, threshold) == Clip(threshold - ClampDistance(d, threshold), 0, threshold)

\* the cutoff taken with >= instead of >
Binarize_inclusive(s, threshold) == IF CutoffDen * s >= threshold THEN threshold ELSE s

\* line 281: d[d > 0.1] = 1.0
Binarize(s, threshold) == IF CutoffDen * s > threshold THEN threshold ELSE s

\* the score array before the dropout step
Scores(di, threshold) ==
    Arr([i \in 1..Len(di) |-> Binarize(Closeness(di[i], threshold), threshold)])

\* line 283: indices = np.where(d == 1.0)[0]
ContactIndices(d, threshold) == {i \in 1..Len(d) : d[i] = threshold}

\* the count as a fixed fraction of the array length
DropoutCount_fixed(d, indices, threshold, fr) == (Len(d) * fr[1]) \div fr[2]

\* line 286: int(d[indices].sum() * f) for the fraction f = fr[1]/fr[2]
DropoutCount(d, indices, threshold, fr) ==
    (SeqSum(Arr([i \in 1..Len(d) |-> IF i \in indices THEN d[i] ELSE 0])) * fr[1])
        \div (threshold * fr[2])

\* lines 285-288: the shuffled indices' first num_idx entries are any num_idx of them
DropoutChoices(d, threshold, fr) ==
    LET indices == ContactIndices(d, threshold)
    IN  IF Cardinality(indices) > 0
        THEN KSubsets(indices, DropoutCount(d, indices, threshold, fr))
        ELSE {{}}

\* a dropout that halves the chosen entries
Dropout_halved(d, zeroed) ==
    Arr([i \in 1..Len(d) |-> IF i \in zeroed THEN d[i] \div 2 ELSE d[i]])

\* line 288: d[indices] = 0.0
Dropout(d, zeroed) == Arr([i \in 1..Len(d) |-> IF i \in zeroed THEN 0 ELSE d[i]])

\* line 314: torch.from_numpy(d).view(-1, cols): fails unless cols divides the length
View(d, cols) ==
    IF Len(d) % cols # 0 THEN [status |-> "error", rows |-> <<>>]
    ELSE [status |-> "ok",
          rows |-> Arr([r \in 1..(Len(d) \div cols) |->
                           SubSeq(d, (r - 1) * cols + 1, r * cols)])]

\* the (obj_pos, obj_quat) rows a caller passes for one instance
ObjectPoses ==
    { <<0, 0, 0, 1, 0, 0, 0>>,
      <<0, 0, 13, 0, 0, 0, 1>>,
      <<0, 0, 40, 0, 0, 0, 2>> }

\* the batches a caller passes: one pose, or one per instance, the instances after
\* the first sharing a pose
PoseBatches ==
    [1..1 -> ObjectPoses]
        \cup {[i \in 1..NumEnvs |-> IF i = 1 THEN a ELSE b] : a \in ObjectPoses, b \in ObjectPoses}

Thresholds == {DefaultThreshold \div 2, DefaultThreshold}

\* the values np.random.uniform(0.0, 0.1) takes in the model, as <<num, den>>
Fractions == {fr \in {<<0, 1>>, <<181, 2000>>, <<23, 250>>} : fr[1] * FracLimitDen < fr[2]}

\* the socket_pos, socket_quat and plug_scale arguments a caller passes with a
\* query: identities with scale 1 for every instance, or a single pose far away,
\* turned about z, with scale 3
SocketArguments ==
    {[socket_rows |-> [i \in 1..NumEnvs |-> <<0, 0, 0, 0, 0, 0, 1>>],
      plug_scale |-> [i \in 1..NumEnvs |-> 1]],
     [socket_rows |-> <<<<7, 7, 7, 0, 0, 1, 1>>>>, plug_scale |-> <<3>>]}

\* query points taken relative to the socket position passed and scaled by the
\* plug_scale passed
QueryPoints_socket_relative(obj_poses, given) ==
    LET object_poses == Unsqueeze(xyzquat_to_tf_numpy(obj_poses))
        query_points == apply_transform(object_poses, object_pc)
        k == given.plug_scale[1]
        at == given.socket_rows[1]
    IN  Arr([i \in 1..Len(query_points) |->
            Arr([p \in 1..Len(query_points[i]) |->
                Arr([c \in 1..3 |-> k * query_points[i][p][c] - at[c]])])])

\* lines 257-269: the plug sample at the object poses; the socket_poses of lines
\* 260-266 are computed and not used, plug_scale is not read
QueryPoints(obj_poses, given) ==
    LET object_poses == Unsqueeze(xyzquat_to_tf_numpy(obj_poses))
        socket_poses == Unsqueeze(xyzquat_to_tf_numpy(given.socket_rows))
    IN  apply_transform(object_poses, object_pc)

\* line 271: the distances of the query points to the scene
QueryDistances(scene, obj_poses, given) ==
    compute_distance(scene, Flatten(QueryPoints(obj_poses, given)))

\* lines 283-314 for the distances di, their scores d, the fraction fr and the
\* dropped indices
ContactResult(scene, obj_poses, di, d, threshold, fr, zeroed) ==
    LET after == Dropout(d, zeroed)
        out == View(after, n_points)
    IN  [op |-> "get_extrinsic_contact", status |-> out.status, rows |-> out.rows,
         n |-> Len(obj_poses), obj_poses |-> obj_poses, threshold |-> threshold,
         fr |-> fr, di |-> di, before |-> d, zeroed |-> zeroed, after |-> after,
         seen |-> scene.state]

\* line 271 on an estimator without self.socket: AttributeError
ContactError(obj_poses) ==
    [op |-> "get_extrinsic_contact", status |-> "error", rows |-> <<>>,
     n |-> Len(obj_poses), seen |-> "unset"]

\* lines 257-314
Query ==
    \E obj_poses \in PoseBatches, given \in SocketArguments :
        LET arguments == [given |-> given]
        IN  IF socket.state = "unset"
            THEN ret' = ContactError(obj_poses) @@ arguments
            ELSE \E di \in {QueryDistances(socket, obj_poses, given)} :
                    \E threshold \in Thresholds, fr \in Fractions :
                        \E d \in {Scores(di, threshold)} :
                            \E zeroed \in DropoutChoices(d, threshold, fr) :
                                ret' = ContactResult(socket, obj_poses, di, d, threshold,
                                                     fr, zeroed) @@ arguments

\* a call that stores the scores it returns in the accumulator
get_extrinsic_contact_accumulating ==
    /\ pc = "idle"
    /\ ret = NoCall
    /\ Query
    /\ gt_extrinsic_contact' = ret'.rows
    /\ UNCHANGED recording
    /\ UNCHANGED <<calc_contact, socket_scale, reset_socket_trimesh, socket_trimesh,
                   socket_pos, socket_pcl, socket_pc, socket, object_trimesh,
                   pointcloud_obj, object_pc, n_points, num_envs, plug_pose_no_rot, step,
                   pc, arg, pre, resets_completed>>

\* a call from the thread that also calls reset_socket_pos
get_extrinsic_contact ==
    /\ pc = "idle"
    /\ ret = NoCall
    /\ Query
    /\ UNCHANGED recording
    /\ UNCHANGED <<estimator, pc, arg, pre, resets_completed>>

\* a call from another thread while reset_socket_pos runs
get_extrinsic_contact_overlapping ==
    /\ pc # "idle"
    /\ ret = Running
    /\ Query
    /\ UNCHANGED recording
    /\ UNCHANGED <<estimator, pc, arg, pre, resets_completed>>

\* the caller takes the result of the call that returned
Return ==
    /\ pc = "idle"
    /\ ret # NoCall
    /\ ret' = NoCall
    /\ arg' = <<>>
    /\ pre' = <<>>
    /\ UNCHANGED recording
    /\ UNCHANGED <<estimator, pc, resets_completed>>

\* the other thread takes the result of its query
ReturnOverlapping ==
    /\ pc # "idle"
    /\ ret # Running
    /\ ret' = Running
    /\ UNCHANGED recording
    /\ UNCHANGED <<estimator, pc, arg, pre, resets_completed>>

----------------------------------------------------------------------------
(* ExtrinsicContact.apply_transform called on its own *)

\* the transforms a caller passes: the identity, and a quarter turn about x with a
\* translation
Transforms == {Eye4, XyzquatRow(<<1, 2, 3, 1, 0, 0, 1>>)}

\* the stacks of N transforms, N = 1 .. NumEnvs
TransformStacks == UNION {[1..n -> Transforms] : n \in 1..NumEnvs}

\* the point arrays a caller passes: P = 1 and P = 3 points, and an array whose
\* last dimension is 2
PointArrays ==
    { <<<<1, 2, 3>>>>,
      <<<<1, 2, 3>>, <<0, 0, 1>>, <<4, 0, 0>>>>,
      <<<<1, 2>>, <<3, 4>>>> }

ApplyTransform ==
    /\ pc = "idle"
    /\ ret = NoCall
    /\ \E poses \in TransformStacks, pc_vertices \in PointArrays :
          ret' = IF MatmulShapesOk(pc_vertices)
                 THEN [op |-> "apply_transform", status |-> "ok", poses |-> poses,
                       pc_vertices |-> pc_vertices,
                       out |-> apply_transform(poses, pc_vertices)]
                 ELSE [op |-> "apply_transform", status |-> "error", poses |-> poses,
                       pc_vertices |-> pc_vertices, out |-> <<>>]
    /\ pre' = OtherFields
    /\ UNCHANGED recording
    /\ UNCHANGED <<estimator, pc, arg, resets_completed>>

----------------------------------------------------------------------------
(* ExtrinsicContact.get_pcl, merge_goal_pcl and get_goal_pcl, called with display
   off: the plotting branches are not part of the model *)

\* a draw that repeats one position
IndexChoices_repeated(total, k) == {[j \in 1..k |-> 1]}

\* np.random.choice(total, k, replace=False) and torch.randperm(total)[:k]: k distinct
\* positions of 1..total in a random order; of these the model draws the cyclic runs
\* of k positions from any start, forwards or backwards
IndexChoices(total, k) ==
    {[j \in 1..k |-> ((a + st * (j - 1)) % total) + 1] :
        a \in 0..(total - 1), st \in {1, total - 1}}

\* merged[:, sampled_indices, :] for one instance
TakePoints(cloud, sampled_indices) ==
    Arr([k \in 1..Len(sampled_indices) |-> cloud[sampled_indices[k]]])

\* tensor.flatten(start_dim=1): per instance the coordinates of its points in a row
FlattenStart1(clouds) == Arr([i \in 1..Len(clouds) |-> Flatten(clouds[i])])

\* object_pc_vertices * plug_scale[i].item()
ScalePoints(points, k) ==
    Arr([p \in 1..Len(points) |-> Arr([c \in 1..3 |-> points[p][c] * k])])

\* goal points that leave the plug sample at its original size
GoalPoints_unscaled(socket_rows, plug_scale) ==
    LET socket_poses == Unsqueeze(xyzquat_to_tf_numpy(socket_rows))
    IN  Arr([i \in 1..Len(plug_scale) |->
                apply_transform(<<socket_poses[i]>>, object_pc)[1]])

\* lines 369-383 and 419-433: the plug sample scaled by plug_scale[i] and moved by
\* the socket pose of instance i, for i in range(plug_scale.shape[0])
GoalPoints(socket_rows, plug_scale) ==
    LET socket_poses == Unsqueeze(xyzquat_to_tf_numpy(socket_rows))
    IN  Arr([i \in 1..Len(plug_scale) |->
                apply_transform(<<socket_poses[i]>>, ScalePoints(object_pc, plug_scale[i]))[1]])

\* merge_goal_pcl, lines 369-388: the goal points and the concatenation
MergeClouds(pcl, socket_rows, plug_scale) ==
    LET query_points_plug_goal == GoalPoints(socket_rows, plug_scale)
    IN  [goal |-> query_points_plug_goal,
         merged |-> Arr([i \in 1..Len(pcl) |-> pcl[i] \o query_points_plug_goal[i]])]

\* a concatenation that starts with the socket points and ends with the plug points
PclClouds_socket_first(obj_rows, socket_rows) ==
    LET object_poses == Unsqueeze(xyzquat_to_tf_numpy(obj_rows))
        socket_poses == Unsqueeze(xyzquat_to_tf_numpy(socket_rows))
        query_points_plug == apply_transform(object_poses, object_pc)
        query_points_plug_goal == apply_transform(socket_poses, object_pc)
        query_points_socket == apply_transform(socket_poses, socket_pc)
    IN  [plug |-> query_points_plug, plug_goal |-> query_points_plug_goal,
         socket |-> query_points_socket,
         merged |-> Arr([i \in 1..Len(object_poses) |->
                           query_points_socket[i] \o query_points_plug_goal[i]
                               \o query_points_plug[i]])]

\* get_pcl, lines 318-359: the three transformed samples and their concatenation
PclClouds(obj_rows, socket_rows) ==
    LET object_poses == Unsqueeze(xyzquat_to_tf_numpy(obj_rows))
        socket_poses == Unsqueeze(xyzquat_to_tf_numpy(socket_rows))
        query_points_plug == apply_transform(object_poses, object_pc)
        query_points_plug_goal == apply_transform(socket_poses, object_pc)
        query_points_socket == apply_transform(socket_poses, socket_pc)
    IN  [plug |-> query_points_plug, plug_goal |-> query_points_plug_goal,
         socket |-> query_points_socket,
         merged |-> Arr([i \in 1..Len(object_poses) |->
                           query_points_plug[i] \o query_points_plug_goal[i]
                               \o query_points_socket[i]])]

\* a sampling that turns the drawn positions round by one for every further instance
SampleClouds_per_instance(merged_point_cloud, sampled_indices) ==
    FlattenStart1(Arr([i \in 1..Len(merged_point_cloud) |->
        TakePoints(merged_point_cloud[i],
                   [k \in 1..Len(sampled_indices) |->
                       sampled_indices[((k + i - 2) % Len(sampled_indices)) + 1]])]))

\* lines 390 and 415, lines 363 and 365: the points at the drawn positions of every
\* instance's concatenation, flattened
SampleClouds(merged_point_cloud, sampled_indices) ==
    FlattenStart1(Arr([i \in 1..Len(merged_point_cloud) |->
                          TakePoints(merged_point_cloud[i], sampled_indices)]))

\* the clouds of two points per instance a caller passes as pcl; the second shares
\* the point (0, 0, 0) with the plug sample
ExistingClouds ==
    [1..NumEnvs -> {<<<<9, 9, 9>>, <<8, 8, 8>>>>, <<<<0, 0, 0>>, <<9, 9, 9>>>>}]

\* the (socket_pos, socket_quat) rows a caller passes: identities, or a quarter turn
\* about z at a position that differs from instance to instance
SocketPoseBatches ==
    {[i \in 1..NumEnvs |-> <<0, 0, 0, 0, 0, 0, 1>>],
     [i \in 1..NumEnvs |-> <<i, 0, 0, 0, 0, 1, 1>>]}

\* the plug_scale arrays a caller passes
PlugScaleBatches == {[i \in 1..NumEnvs |-> 1], [i \in 1..NumEnvs |-> i]}

\* get_pcl(obj_pos, obj_quat, socket_pos, socket_quat, display=False)
GetPcl ==
    /\ pc = "idle"
    /\ ret = NoCall
    /\ \E obj_rows \in [1..NumEnvs -> ObjectPoses], socket_rows \in SocketPoseBatches :
          \E r \in {PclClouds(obj_rows, socket_rows)} :
              \E sampled_indices \in IndexChoices(Len(r.merged[1]), Len(r.plug[1])) :
                  ret' = [op |-> "get_pcl", status |-> "ok", obj_rows |-> obj_rows,
                          socket_rows |-> socket_rows, idx |-> sampled_indices,
                          plug |-> r.plug, plug_goal |-> r.plug_goal, socket |-> r.socket,
                          out |-> SampleClouds(r.merged, sampled_indices)]
    /\ UNCHANGED recording
    /\ UNCHANGED <<estimator, pc, arg, pre, resets_completed>>

\* merge_goal_pcl(pcl, socket_pos, socket_quat, plug_scale)
MergeGoalPcl ==
    /\ pc = "idle"
    /\ ret = NoCall
    /\ \E pcl \in ExistingClouds, socket_rows \in SocketPoseBatches,
          plug_scale \in PlugScaleBatches :
          \E r \in {MergeClouds(pcl, socket_rows, plug_scale)} :
              \E sampled_indices \in IndexChoices(Len(r.merged[1]), Len(pcl[1])) :
                  ret' = [op |-> "merge_goal_pcl", status |-> "ok", pcl |-> pcl,
                          socket_rows |-> socket_rows, plug_scale |-> plug_scale,
                          idx |-> sampled_indices, goal |-> r.goal,
                          out |-> SampleClouds(r.merged, sampled_indices)]
    /\ UNCHANGED recording
    /\ UNCHANGED <<estimator, pc, arg, pre, resets_completed>>

\* get_goal_pcl(socket_pos, socket_quat, plug_scale)
GetGoalPcl ==
    /\ pc = "idle"
    /\ ret = NoCall
    /\ \E socket_rows \in SocketPoseBatches, plug_scale \in PlugScaleBatches :
          ret' = [op |-> "get_goal_pcl", status |-> "ok", socket_rows |-> socket_rows,
                  plug_scale |-> plug_scale, out |-> GoalPoints(socket_rows, plug_scale)]
    /\ UNCHANGED recording
    /\ UNCHANGED <<estimator, pc, arg, pre, resets_completed>>

----------------------------------------------------------------------------
(* ExtrinsicContact.estimate_pose and estimate_pose_batch *)

\* pose[:3, :3]
RotOf(pose) == <<SubSeq(pose[1], 1, 3), SubSeq(pose[2], 1, 3), SubSeq(pose[3], 1, 3)>>

\* pose[:3, 3]
PosOf(pose) == <<pose[1][4], pose[2][4], pose[3][4]>>

\* the X column rot[:, 0] in place of the Z column
ZDir_x(rot) == <<rot[1][1], rot[2][1], rot[3][1]>>

\* rot[:, 2]
ZDir(rot) == <<rot[1][3], rot[2][3], rot[3][3]>>

VecHasNaN(v) == \E c \in 1..Len(v) : IsNaN(v[c])

MatHasNaN(M) == \E r \in 1..Len(M) : VecHasNaN(M[r])

\* np.linalg.norm(v): exact for the vectors of the model, which have at most one
\* entry whose standard part is not zero (or, with standard part 0, at most one
\* entry that is not zero)
Norm(v) ==
    IF VecHasNaN(v) THEN NaN
    ELSE IF \E c \in 1..3 : HasEps(v[c])
         THEN LET std == Abs(StdPart(v[1])) + Abs(StdPart(v[2])) + Abs(StdPart(v[3]))
                  along == StdPart(v[1]) * EpsPart(v[1]) + StdPart(v[2]) * EpsPart(v[2])
                               + StdPart(v[3]) * EpsPart(v[3])
              IN  IF std = 0
                  THEN (Abs(EpsPart(v[1])) + Abs(EpsPart(v[2])) + Abs(EpsPart(v[3]))) * Eps
                  ELSE std + Quotient(along, std) * Eps
         ELSE Abs(v[1]) + Abs(v[2]) + Abs(v[3])

VecDiv(v, a) == <<FDiv(v[1], a), FDiv(v[2], a), FDiv(v[3], a)>>

VecScale(a, v) == <<FMul(a, v[1]), FMul(a, v[2]), FMul(a, v[3])>>

Dot(a, b) == FAdd(FAdd(FMul(a[1], b[1]), FMul(a[2], b[2])), FMul(a[3], b[3]))

\* np.cross(a, b)
Cross(a, b) ==
    <<FSub(FMul(a[2], b[3]), FMul(a[3], b[2])),
      FSub(FMul(a[3], b[1]), FMul(a[1], b[3])),
      FSub(FMul(a[1], b[2]), FMul(a[2], b[1]))>>

\* a comparison that never finds the cosine close to 1
IsClose1_never(a) == FALSE

\* np.allclose(a, 1) and np.isclose(a, 1.0): false for nan; a number that differs
\* from 1 by a multiple of eps * eps is held as the integer 1
IsClose1(a) == a = 1

\* np.arccos(c) in quarter turns; nan outside [-1, 1] (a warning, no exception)
ArcCos(c) ==
    IF c = 1 THEN 0 ELSE IF c = 0 THEN 1 ELSE IF c = 0 - 1 THEN 2 ELSE NaN

NaN3 == <<<<NaN, NaN, NaN>>, <<NaN, NaN, NaN>>, <<NaN, NaN, NaN>>>>

\* R.from_rotvec(rotvec).as_matrix() for a rotation vector in quarter turns: the
\* rotation by |rotvec| about rotvec/|rotvec|, the identity for the zero vector, and
\* nan entries for a rotation vector with a nan (no exception is raised)
from_rotvec(rotvec) ==
    IF VecHasNaN(rotvec) THEN NaN3
    ELSE IF Norm(rotvec) % 4 = 0 THEN Eye3
    ELSE LET angle == Norm(rotvec) % 4
             a == VecDiv(rotvec, Norm(rotvec))
             c == IF angle = 2 THEN 0 - 1 ELSE 0
             sn == IF angle = 1 THEN 1 ELSE IF angle = 3 THEN 0 - 1 ELSE 0
             K == <<<<0, 0 - a[3], a[2]>>, <<a[3], 0, 0 - a[1]>>, <<0 - a[2], a[1], 0>>>>
         IN  Arr([i \in 1..3 |-> Arr([j \in 1..3 |->
                 c * Eye3[i][j] + sn * K[i][j] + (1 - c) * a[i] * a[j]])])

\* a 4 x 4 pose from its rotation block, its position and its last row
PoseFrom(rot, pos, last) ==
    <<rot[1] \o <<pos[1]>>, rot[2] \o <<pos[2]>>, rot[3] \o <<pos[3]>>, last>>

\* a normalisation that works on a copy and leaves the caller's array as it is
NormalizeZInPlace_on_copy(pose) == pose

\* lines 166-167: curr_z_dir is a view of curr_pose, so curr_z_dir /= norm writes the
\* normalised column into the caller's array
NormalizeZInPlace(pose) ==
    LET z == ZDir(RotOf(pose))
        u == VecDiv(z, Norm(z))
    IN  Arr([r \in 1..4 |-> IF r <= 3 THEN <<pose[r][1], pose[r][2], u[r], pose[r][4]>>
                            ELSE pose[r]])

None == <<>>

\* a delta rotation that is always the identity
DeltaRot_identity(prev_z_dir, curr_z_dir) == Eye3

\* lines 175-181
DeltaRot(prev_z_dir, curr_z_dir) ==
    LET cos_dist == Dot(prev_z_dir, curr_z_dir)
    IN  IF ~IsClose1(cos_dist)
        THEN LET axis0 == Cross(prev_z_dir, curr_z_dir)
                 axis == VecDiv(axis0, Norm(axis0))
                 angle == ArcCos(cos_dist)
             IN  from_rotvec(VecScale(angle, axis))
        ELSE Eye3

\* estimate_pose(curr_pose, prev_pose) for two arrays: the returned pose, the delta
\* rotation used, and the caller's curr_pose and prev_pose after the call
estimate_pose(curr_pose, prev_pose) ==
    LET curr_after == NormalizeZInPlace(curr_pose)
        curr_pos == PosOf(curr_after)
        curr_z_dir == ZDir(RotOf(curr_after))
        prev == IF prev_pose = None THEN Eye4 ELSE prev_pose
        prev_rot == RotOf(prev)
        prev_z_dir == ZDir(prev_rot)
        delta_rot == DeltaRot(prev_z_dir, curr_z_dir)
    IN  [out |-> PoseFrom(MatMul(delta_rot, prev_rot), curr_pos, Eye4[4]),
         delta |-> delta_rot,
         axis |-> Cross(prev_z_dir, curr_z_dir),
         curr_after |-> curr_after,
         prev_after |-> prev_pose]

\* estimate_pose(pose, pose), one array passed as curr_pose and as prev_pose: line
\* 167 writes the normalised Z column into the array before lines 172-173 read the
\* previous rotation from it, and the array after the call is both the caller's
\* curr_pose and the caller's prev_pose
estimate_pose_same_array(pose) ==
    LET shared == NormalizeZInPlace(pose)
    IN  [estimate_pose(shared, shared) EXCEPT !.curr_after = shared, !.prev_after = shared]

\* lines 213-236 for one row of the batch
DeltaRotRow(prev_z_dir, curr_z_dir) ==
    LET cos_dist == Dot(prev_z_dir, curr_z_dir)
        no_rotation_needed == IsClose1(cos_dist)
        axes0 == Cross(prev_z_dir, curr_z_dir)
        norms == Norm(axes0)
        axes == IF ~IsNaN(norms) /\ norms > 0 THEN VecDiv(axes0, norms) ELSE <<0, 0, 0>>
        angles == ArcCos(Clip(cos_dist, 0 - 1, 1))
        delta_rots == from_rotvec(VecScale(angles, axes))
    IN  IF no_rotation_needed THEN Eye3 ELSE delta_rots

\* estimate_pose_batch(curr_poses, prev_poses); the default for prev_poses = None is
\* commented out (lines 206-207), so line 210 raises TypeError on None, after line 203
\* has normalised the Z columns of curr_poses in place
estimate_pose_batch(curr_poses, prev_poses) ==
    LET batch_size == Len(curr_poses)
        curr_after == Arr([i \in 1..batch_size |-> NormalizeZInPlace(curr_poses[i])])
        delta_rots == Arr([i \in 1..batch_size |->
                              DeltaRotRow(ZDir(RotOf(prev_poses[i])), ZDir(RotOf(curr_after[i])))])
    IN  IF prev_poses = None
        THEN [status |-> "error", out |-> <<>>, delta |-> <<>>, axis |-> <<>>,
              curr_after |-> curr_after, prev_after |-> prev_poses]
        ELSE [status |-> "ok",
              out |-> Arr([i \in 1..batch_size |->
                             PoseFrom(MatMul(delta_rots[i], RotOf(prev_poses[i])),
                                      PosOf(curr_after[i]), <<0, 0, 0, 1>>)]),
              delta |-> delta_rots,
              axis |-> Arr([i \in 1..batch_size |->
                             Cross(ZDir(RotOf(prev_poses[i])), ZDir(RotOf(curr_after[i])))]),
              curr_after |-> curr_after, prev_after |-> prev_poses]

\* the rotations callers pass, as quaternions (x, y, z, w): the identity, half a turn
\* about x, and quarter turns about x, y and z
PoseQuats == {<<0, 0, 0, 1>>, <<1, 0, 0, 0>>, <<1, 0, 0, 1>>, <<0, 1, 0, 1>>, <<0, 0, 1, 1>>}

PosePositions == {<<0, 0, 0>>, <<1, 2, 3>>}

\* the pose with rotation q and position p whose Z column has length k
PoseOf(q, p, k) ==
    LET Rm == QuatToMatrix(q)
    IN  <<<<Rm[1][1], Rm[1][2], k * Rm[1][3], p[1]>>,
          <<Rm[2][1], Rm[2][2], k * Rm[2][3], p[2]>>,
          <<Rm[3][1], Rm[3][2], k * Rm[3][3], p[3]>>,
          <<0, 0, 0, 1>>>>

CurrPoses == {PoseOf(q, p, k) : q \in PoseQuats, p \in PosePositions, k \in {1, 2}}

PrevPoses == {PoseOf(q, <<0, 0, 0>>, k) : q \in PoseQuats, k \in {1, 2}}

\* the (curr, prev) rows of the batches
BatchRows ==
    {<<PoseOf(q[1], <<1, 2, 3>>, 2), PoseOf(q[2], <<0, 0, 0>>, q[3])>> :
        q \in {<<<<0, 0, 0, 1>>, <<0, 0, 0, 1>>, 1>>,
               <<<<1, 0, 0, 0>>, <<0, 0, 0, 1>>, 1>>,
               <<<<0, 1, 0, 1>>, <<0, 0, 1, 1>>, 1>>,
               <<<<0, 0, 1, 1>>, <<1, 0, 0, 1>>, 1>>,
               <<<<0, 0, 0, 1>>, <<0, 0, 1, 1>>, 2>>}}

EstimatePose ==
    /\ pc = "idle"
    /\ ret = NoCall
    /\ \E curr_pose \in CurrPoses, prev_pose \in PrevPoses \cup {None} :
          \E r \in {estimate_pose(curr_pose, prev_pose)} :
              ret' = [op |-> "estimate_pose", status |-> "ok", curr |-> <<curr_pose>>,
                      prev |-> <<prev_pose>>, out |-> <<r.out>>, delta |-> <<r.delta>>,
                      axis |-> <<r.axis>>, curr_after |-> <<r.curr_after>>,
                      prev_after |-> <<r.prev_after>>]
    /\ UNCHANGED recording
    /\ UNCHANGED <<estimator, pc, arg, pre, resets_completed>>

\* a caller that passes one array as curr_pose and as prev_pose
EstimatePoseSameArray ==
    /\ pc = "idle"
    /\ ret = NoCall
    /\ \E pose \in CurrPoses :
          \E r \in {estimate_pose_same_array(pose)} :
              ret' = [op |-> "estimate_pose_same_array", status |-> "ok", curr |-> <<pose>>,
                      prev |-> <<pose>>, out |-> <<r.out>>, delta |-> <<r.delta>>,
                      axis |-> <<r.axis>>, curr_after |-> <<r.curr_after>>,
                      prev_after |-> <<r.prev_after>>]
    /\ UNCHANGED recording
    /\ UNCHANGED <<estimator, pc, arg, pre, resets_completed>>

EstimatePoseBatch ==
    /\ pc = "idle"
    /\ ret = NoCall
    /\ \E rows \in [1..NumEnvs -> BatchRows], unset \in BOOLEAN :
          \E curr_poses \in {Arr([i \in 1..NumEnvs |-> rows[i][1]])},
             prev_poses \in {IF unset THEN None ELSE Arr([i \in 1..NumEnvs |-> rows[i][2]])} :
            \E r \in {estimate_pose_batch(curr_poses, prev_poses)} :
              ret' = [op |-> "estimate_pose_batch", status |-> r.status, curr |-> curr_poses,
                      prev |-> prev_poses, out |-> r.out, delta |-> r.delta,
                      axis |-> r.axis, curr_after |-> r.curr_after,
                      prev_after |-> r.prev_after]
    /\ UNCHANGED recording
    /\ UNCHANGED <<estimator, pc, arg, pre, resets_completed>>

----------------------------------------------------------------------------
(* A caller that tracks a pose: tracked_k = estimate_pose(curr_k, tracked_{k-1}),
   starting from the identity *)

\* the number of poses of a tracked sequence
MaxTrack == 3

\* the rotations of the current poses: those of PoseQuats and the quarter turns the
\* other way about x and y, so that the Z axis takes all six axis directions
TrackQuats == PoseQuats \cup {<<0 - 1, 0, 0, 1>>, <<0, 0 - 1, 0, 1>>}

\* the rotations by the angle eps and by -eps about y and by eps about x; eps is an
\* angle the tolerance of np.allclose(cos_dist, 1) hides: cos(eps) = 1 - eps^2 / 2 is
\* within rtol = 1e-5 of 1 for every eps up to 0.0044 rad
Tilts ==
    {<<<<1, 0, Eps>>, <<0, 1, 0>>, <<0 - Eps, 0, 1>>>>,
     <<<<1, 0, 0 - Eps>>, <<0, 1, 0>>, <<Eps, 0, 1>>>>,
     <<<<1, 0, 0>>, <<0, 1, 0 - Eps>>, <<0, Eps, 1>>>>}

\* the current poses fed to the tracker, all with orthonormal rotation blocks: the
\* rotations of TrackQuats at one position, a quarter turn about z at another, and
\* the tracked rotation tilted by eps
TrackCurrPoses(tracked) ==
    {PoseOf(q, <<1, 2, 3>>, 1) : q \in TrackQuats}
        \cup {PoseOf(<<0, 0, 1, 1>>, <<0, 0, 0>>, 1)}
        \cup (IF MatHasNaN(tracked) THEN {}
              ELSE {PoseFrom(MatMul(RotOf(tracked), t), <<1, 2, 3>>, <<0, 0, 0, 1>>) :
                       t \in Tilts})

\* one step of the tracker; aligned records that no two consecutive current Z axes
\* so far were anti-parallel, up to eps
TrackPose ==
    /\ pc = "idle"
    /\ ret = NoCall \/ (ret.op = "track" /\ ret.k < MaxTrack)
    /\ LET tracked == IF ret = NoCall THEN Eye4 ELSE ret.out[1]
           last_z == IF ret = NoCall THEN ZDir(Eye3) ELSE ZDir(RotOf(ret.curr_after[1]))
           k == IF ret = NoCall THEN 0 ELSE ret.k
           aligned == IF ret = NoCall THEN TRUE ELSE ret.aligned
       IN  \E curr_pose \in TrackCurrPoses(tracked) :
               \E r \in {estimate_pose(curr_pose, tracked)} :
                   ret' = [op |-> "track", status |-> "ok", k |-> k + 1,
                           curr |-> <<curr_pose>>, prev |-> <<tracked>>, out |-> <<r.out>>,
                           delta |-> <<r.delta>>, axis |-> <<r.axis>>,
                           curr_after |-> <<r.curr_after>>,
                           aligned |-> aligned /\ StdPart(Dot(last_z, ZDir(RotOf(r.curr_after))))
                                                      # 0 - 1]
    /\ UNCHANGED recording
    /\ UNCHANGED <<estimator, pc, arg, pre, resets_completed>>

----------------------------------------------------------------------------
(* FactoryEnvInsertionTactile: video and force-torque recording *)

\* the most frames a recording is followed for
MaxFrames == 2

\* the frame the cameras give, and the first row of self.actions
CameraFrames == {"camera_frame"}

ActionRows == {"action_row"}

\* whether _render_headless appends to a frame list
Appends(now, complete) == now /\ ~complete.is_none /\ Len(complete.list) = 0

_render_headless ==
    /\ ret = NoCall
    /\ Len(video_frames) < MaxFrames
    /\ Len(ft_frames) < MaxFrames
    /\ \E frame \in CameraFrames, row \in ActionRows :
        /\ video_frames' = IF Appends(record_now, complete_video_frames)
                           THEN Append(video_frames, frame)
                           ELSE video_frames
        /\ ft_frames' = IF Appends(record_now_ft, complete_ft_frames)
                        THEN Append(ft_frames, row)
                        ELSE ft_frames
    /\ ret' = [op |-> "_render_headless", status |-> "ok",
               record_now |-> record_now, record_now_ft |-> record_now_ft]
    /\ UNCHANGED <<record_now, record_now_ft, complete_video_frames, complete_ft_frames>>
    /\ UNCHANGED <<estimator, pc, arg, pre, resets_completed>>

start_recording_empty_list ==
    /\ ret = NoCall
    /\ complete_video_frames' = FrameList(<<>>)
    /\ record_now' = TRUE
    /\ ret' = [op |-> "start_recording", status |-> "ok"]
    /\ UNCHANGED <<video_frames, ft_frames, record_now_ft, complete_ft_frames>>
    /\ UNCHANGED <<estimator, pc, arg, pre, resets_completed>>

start_recording ==
    /\ ret = NoCall
    /\ complete_video_frames' = NoFrameList
    /\ record_now' = TRUE
    /\ ret' = [op |-> "start_recording", status |-> "ok"]
    /\ UNCHANGED <<video_frames, ft_frames, record_now_ft, complete_ft_frames>>
    /\ UNCHANGED <<estimator, pc, arg, pre, resets_completed>>

start_recording_ft ==
    /\ ret = NoCall
    /\ complete_ft_frames' = NoFrameList
    /\ record_now_ft' = TRUE
    /\ ret' = [op |-> "start_recording_ft", status |-> "ok"]
    /\ UNCHANGED <<video_frames, ft_frames, record_now, complete_video_frames>>
    /\ UNCHANGED <<estimator, pc, arg, pre, resets_completed>>

pause_recording ==
    /\ ret = NoCall
    /\ complete_video_frames' = FrameList(<<>>)
    /\ video_frames' = <<>>
    /\ record_now' = FALSE
    /\ ret' = [op |-> "pause_recording", status |-> "ok"]
    /\ UNCHANGED <<ft_frames, record_now_ft, complete_ft_frames>>
    /\ UNCHANGED <<estimator, pc, arg, pre, resets_completed>>

pause_recording_ft ==
    /\ ret = NoCall
    /\ complete_ft_frames' = FrameList(<<>>)
    /\ ft_frames' = <<>>
    /\ record_now_ft' = FALSE
    /\ ret' = [op |-> "pause_recording_ft", status |-> "ok"]
    /\ UNCHANGED <<video_frames, record_now, complete_video_frames>>
    /\ UNCHANGED <<estimator, pc, arg, pre, resets_completed>>

\* what get_complete_frames and get_ft_frames return for a frame list attribute
CompleteFrames(complete) == IF complete.is_none THEN FrameList(<<>>) ELSE complete

get_complete_frames ==
    /\ ret = NoCall
    /\ ret' = [op |-> "get_complete_frames", status |-> "ok",
               out |-> CompleteFrames(complete_video_frames)]
    /\ UNCHANGED recording
    /\ UNCHANGED <<estimator, pc, arg, pre, resets_completed>>

get_ft_frames ==
    /\ ret = NoCall
    /\ ret' = [op |-> "get_ft_frames", status |-> "ok",
               out |-> CompleteFrames(complete_ft_frames)]
    /\ UNCHANGED recording
    /\ UNCHANGED <<estimator, pc, arg, pre, resets_completed>>

----------------------------------------------------------------------------
(* Specifications *)

\* the estimator called from one thread, one call after the other
Next ==
    \/ reset_socket_pos
    \/ get_extrinsic_contact
    \/ ApplyTransform
    \/ Return

Spec == Init /\ [][Next]_vars

\* the estimator with queries issued while reset_socket_pos runs
NextOverlap ==
    \/ reset_socket_pos
    \/ get_extrinsic_contact
    \/ get_extrinsic_contact_overlapping
    \/ Return
    \/ ReturnOverlapping

SpecOverlap == Init /\ [][NextOverlap]_vars

\* the pose tracking functions applied to the poses of CurrPoses, PrevPoses and
\* BatchRows
NextPose ==
    \/ EstimatePose
    \/ EstimatePoseSameArray
    \/ EstimatePoseBatch
    \/ Return

SpecPose == Init /\ [][NextPose]_vars

\* the accumulator written by its owner and cleared, between rebuilds of the socket
NextAccumulator ==
    \/ WriteContact
    \/ reset_extrinsic_contact
    \/ reset_socket_pos
    \/ Return

SpecAccumulator == Init /\ [][NextAccumulator]_vars

\* the point cloud compositions on the estimator as constructed
NextCloud ==
    \/ GetPcl
    \/ MergeGoalPcl
    \/ GetGoalPcl
    \/ Return

SpecCloud == Init /\ [][NextCloud]_vars

\* sequences of up to MaxTrack poses fed to a tracker
NextTrack ==
    \/ TrackPose
    \/ Return

SpecTrack == Init /\ [][NextTrack]_vars

\* the recording calls of the environment, one call after the other
NextRecording ==
    \/ start_recording \/ start_recording_ft
    \/ pause_recording \/ pause_recording_ft
    \/ _render_headless
    \/ get_complete_frames \/ get_ft_frames
    \/ Return

SpecRecording == Init /\ [][NextRecording]_vars

----------------------------------------------------------------------------
(* Properties *)

IsQuery == ret.op = "get_extrinsic_contact"

QueryOk == IsQuery /\ ret.status = "ok"

ResetOk == ret.op = "reset_socket_pos" /\ ret.status = "ok"

\* the returned tensor as one array: the array d that line 314 reshapes
Returned == ret.after

\* C1: a get_extrinsic_contact call on an estimator whose distance field is built
\* returns a tensor with one row per input pose and n_points columns, and every
\* entry num/threshold lies in [0, 1].
C1_ScoresInUnitIntervalAndShape ==
    (IsQuery /\ ret.seen # "unset") =>
        /\ ret.status = "ok"
        /\ Len(ret.rows) = ret.n
        /\ \A r \in 1..Len(ret.rows) :
              /\ Len(ret.rows[r]) = n_points
              /\ \A c \in 1..n_points :
                    ret.rows[r][c] >= 0 /\ ret.rows[r][c] <= ret.threshold

\* a batch of num_envs poses whose result holds a 0 made by the dropout, a 1 and a
\* score strictly between
C1_Witness ==
    /\ QueryOk
    /\ ret.n = num_envs
    /\ ret.zeroed # {}
    /\ \E i \in 1..Len(Returned) : Returned[i] = ret.threshold
    /\ \E r \in DOMAIN ret.rows : \E c \in DOMAIN ret.rows[r] :
          ret.rows[r][c] > 0 /\ ret.rows[r][c] < ret.threshold

\* the score the claim gives a point at raw distance d: clip(1 - min(d, t)/t, 0, 1),
\* replaced by 1 above 0.1, as a numerator over t
C2_ClaimedScore(d, t) ==
    LET sc == Max(0, Min(t, t - Min(d, t)))
    IN  IF 10 * sc > t THEN t ELSE sc

\* C2: before the dropout a point at raw distance d scores
\* clip(1 - min(d, threshold)/threshold, 0, 1), snapped to 1 above 0.1; a point with
\* d >= threshold scores 0, and when every point has d >= threshold the returned
\* array is all zeros whatever the random draws are.
C2_ScoreFormula ==
    QueryOk =>
        /\ \A i \in 1..Len(ret.di) :
              /\ ret.before[i] = C2_ClaimedScore(ret.di[i], ret.threshold)
              /\ ret.di[i] >= ret.threshold => ret.before[i] = 0
        /\ (\A i \in 1..Len(ret.di) : ret.di[i] >= ret.threshold)
              => \A i \in 1..Len(Returned) : Returned[i] = 0

\* a call with a nonzero random fraction in which one point is snapped to 1, one
\* keeps the score 0.1 and one lies at or beyond the threshold
C2_Witness ==
    /\ QueryOk
    /\ ret.fr[1] > 0
    /\ \E i \in 1..Len(ret.di) : ret.di[i] > 0 /\ ret.before[i] = ret.threshold
    /\ \E i \in 1..Len(ret.di) : 10 * ret.before[i] = ret.threshold
    /\ \E i \in 1..Len(ret.di) : ret.di[i] >= ret.threshold

\* C3: before the dropout the score is a non-increasing function of the raw
\* distance over all queried points of all instances, and after the dropout the same
\* holds for every pair of entries the dropout did not zero.
C3_ScoreMonotone ==
    QueryOk =>
        \A a \in 1..Len(ret.di), b \in 1..Len(ret.di) :
            ret.di[a] <= ret.di[b] =>
                /\ ret.before[a] >= ret.before[b]
                /\ (a \notin ret.zeroed /\ b \notin ret.zeroed) => Returned[a] >= Returned[b]

\* a call that dropped an entry and scored a nearer point of one instance higher
\* than a farther point of another
C3_Witness ==
    /\ QueryOk
    /\ ret.zeroed # {}
    /\ \E a \in 1..n_points, b \in (n_points + 1)..Len(ret.di) :
          /\ ret.di[a] < ret.di[b]
          /\ Returned[a] > Returned[b]
          /\ b \notin ret.zeroed

\* the entries the dropout step changed
Zeroed == {i \in 1..Len(ret.before) : Returned[i] # ret.before[i]}

\* C4 as stated: the number of entries zeroed is the integer part of (the sum of
\* the scores in the score array at that moment) * f.
C4_CountFromWholeArraySum ==
    QueryOk =>
        Cardinality(Zeroed) = (SeqSum(ret.before) * ret.fr[1]) \div (ret.threshold * ret.fr[2])

\* C4 as amended: the number of entries zeroed is the integer part of K * f, where K
\* is the number of entries equal to 1.0 at that moment (the sum the code takes runs
\* over these entries only); scores at or below 0.1 do not count.
C4_CountFromContactEntries ==
    QueryOk =>
        LET K == Cardinality({i \in 1..Len(ret.before) : ret.before[i] = ret.threshold})
        IN  Cardinality(Zeroed) = (K * ret.fr[1]) \div ret.fr[2]

\* a call in which the dropout zeroed an entry
C4_Witness ==
    /\ QueryOk
    /\ Cardinality(Zeroed) >= 1
    /\ Cardinality(Zeroed) < Len(ret.before)

\* C5: a query on an estimator whose distance field was never built (calc_contact
\* false and no reset_socket_pos completed) fails and returns no scores; once a
\* reset_socket_pos has completed, or with calc_contact true, every query finds a
\* built distance field.
C5_QueryNeedsBuiltField ==
    /\ IsQuery =>
          /\ (ret.seen = "unset") <=> ~(calc_contact \/ resets_completed)
          /\ ret.seen = "unset" => (ret.status = "error" /\ ret.rows = <<>>)
          /\ ret.seen # "unset" => ret.seen = "built"
    /\ (pc = "idle" /\ (calc_contact \/ resets_completed)) =>
          socket.state = "built" /\ socket.triangles # <<>>

\* a failed query on an estimator built without a distance field
C5_Witness ==
    /\ IsQuery
    /\ ret.status = "error"
    /\ ~calc_contact
    /\ socket.state = "unset"

\* C6: a query overlapping reset_socket_pos never observes a scene installed in
\* self.socket that has no triangles yet.
C6_NoPartialField == IsQuery => ret.seen # "empty"

\* C7: when reset_socket_pos fails, the socket mesh, position, distance field and
\* sample are the values they had before the call (the class has no field that marks
\* the estimator unusable).
C7_FailedResetRestores ==
    (ret.op = "reset_socket_pos" /\ ret.status = "error") => SocketFields = pre

\* C8: after reset_socket_pos returns, the distance field, socket_pcl and socket_pc
\* all hold data of the rebuilt mesh.
C8_NoStaleSocketState ==
    ResetOk =>
        /\ socket.state = "built"
        /\ socket.triangles = socket_trimesh
        /\ socket_pcl \in sample_surface_even(socket_trimesh, n_points)
        /\ socket_pc \in sample_surface_even(socket_trimesh, n_points)

\* C9: after reset_socket_pos(p) the socket mesh is the loaded mesh scaled by
\* socket_scale and translated by p, and the sample and the distance field are built
\* from it.
C9_ResetMeshScaledAndTranslated ==
    ResetOk =>
        LET rebuilt == MeshTranslate(apply_scale(SocketMeshFile, socket_scale), socket_pos)
        IN  /\ socket_trimesh = rebuilt
            /\ socket.triangles = rebuilt
            /\ socket_pcl \in sample_surface_even(rebuilt, n_points)

\* C10: in estimate_pose and estimate_pose_batch, a row whose previous and current
\* Z axes have a zero cross product gets the identity as delta rotation, and the
\* returned pose holds no nan.
C10_DegenerateAxisFallsBack ==
    (ret.op \in {"estimate_pose", "estimate_pose_batch"}) =>
        \A i \in 1..Len(ret.out) :
            ret.axis[i] = <<0, 0, 0>> =>
                ret.delta[i] = Eye3 /\ ~MatHasNaN(ret.out[i])

\* C11: every row i of estimate_pose_batch(curr, prev) equals
\* estimate_pose(curr[i], prev[i]), rows with the identity fallback and rows with
\* anti-parallel Z axes included.
C11_BatchEqualsSingle ==
    (ret.op = "estimate_pose_batch" /\ ret.status = "ok") =>
        \A i \in 1..Len(ret.out) :
            ret.out[i] = estimate_pose(ret.curr[i], ret.prev[i]).out

\* two poses with the same position and the same third rotation column
C12_SameZAndPosition(a, b) == \A r \in 1..3 : a[r][3] = b[r][3] /\ a[r][4] = b[r][4]

\* C12: for any previous pose, a current pose with the same position and the same
\* local Z axis as the one passed, rotated about that axis, gives the same result
\* from estimate_pose and the same row from estimate_pose_batch, entry by entry (a
\* nan entry of one result being a nan entry of the other).
C12_ZRotationInvariant ==
    /\ ret.op = "estimate_pose" =>
          \A c2 \in CurrPoses :
              C12_SameZAndPosition(c2, ret.curr[1]) =>
                  estimate_pose(c2, ret.prev[1]).out = ret.out[1]
    /\ (ret.op = "estimate_pose_batch" /\ ret.status = "ok") =>
          \A i \in 1..Len(ret.curr) : \A c2 \in CurrPoses :
              C12_SameZAndPosition(c2, ret.curr[i]) =>
                  estimate_pose_batch([ret.curr EXCEPT ![i] = c2], ret.prev).out[i]
                      = ret.out[i]

\* an estimate_pose call that turned the previous rotation by a quarter turn, for a
\* current pose that has a different pose with the same Z axis and position
C12_Witness ==
    /\ ret.op = "estimate_pose"
    /\ ret.delta[1] # Eye3
    /\ ~MatHasNaN(ret.out[1])
    /\ \E c2 \in CurrPoses : c2 # ret.curr[1] /\ C12_SameZAndPosition(c2, ret.curr[1])

\* C13: estimate_pose(curr, prev) with prev equal to curr (orthonormal rotation
\* block) uses the identity as delta rotation and returns curr; whenever the
\* previous Z axis equals the current (normalised) Z axis the returned rotation is
\* the previous rotation.
C13_SameZKeepsPrevious ==
    (ret.op = "estimate_pose" /\ ret.prev[1] # None) =>
        /\ (\A r \in 1..3 : ret.prev[1][r][3] = ret.curr_after[1][r][3]) =>
              /\ ret.delta[1] = Eye3
              /\ RotOf(ret.out[1]) = RotOf(ret.prev[1])
        /\ (ret.prev[1] = ret.curr[1] /\ MatMul(RotOf(ret.curr[1]), Transpose(RotOf(ret.curr[1]))) = Eye3) =>
              /\ ret.delta[1] = Eye3
              /\ ret.out[1] = ret.curr[1]

\* estimate_pose(curr, curr) for a curr that is a quarter turn about x
C13_Witness ==
    /\ ret.op = "estimate_pose"
    /\ ret.prev[1] = ret.curr[1]
    /\ RotOf(ret.curr[1]) = QuatToMatrix(<<1, 0, 0, 1>>)
    /\ ret.out[1] = ret.curr[1]

\* C14: an unset previous pose is the identity: estimate_pose(curr, None) equals
\* estimate_pose(curr, I), estimate_pose_batch(curr, None) equals
\* estimate_pose_batch(curr, a batch of I), and plug_pose_no_rot is the identity for
\* each of the num_envs instances after construction and after every
\* reset_socket_pos.
C14_UnsetPreviousIsIdentity ==
    /\ (ret.op = "estimate_pose" /\ ret.prev[1] = None) =>
          ret.out[1] = estimate_pose(ret.curr[1], Eye4).out
    /\ (ret.op = "estimate_pose_batch" /\ ret.prev = None) =>
          /\ ret.status = "ok"
          /\ ret.out = estimate_pose_batch(ret.curr, IdentityPoses(Len(ret.curr))).out
    /\ pc = "idle" => plug_pose_no_rot = IdentityPoses(num_envs)

\* C15: after reset_extrinsic_contact every entry of gt_extrinsic_contact is 0, its
\* shape is still num_envs x n_points, and the meshes, the point samples, the
\* distance field and the tracked pose are what they were before the call.
C15_AccumulatorCleared ==
    ret.op = "reset_extrinsic_contact" =>
        /\ Len(gt_extrinsic_contact) = num_envs
        /\ \A i \in 1..num_envs :
              /\ Len(gt_extrinsic_contact[i]) = n_points
              /\ \A j \in 1..n_points : gt_extrinsic_contact[i][j] = 0
        /\ OtherFields = pre

\* a reset_extrinsic_contact on an accumulator holding a nonzero score, after a
\* reset_socket_pos has rebuilt the socket
C15_Witness ==
    /\ ret.op = "reset_extrinsic_contact"
    /\ \E i \in 1..num_envs : \E j \in 1..n_points : ret.before[i][j] > 0
    /\ resets_completed

\* C16: the samples of plug and socket hold exactly num_points points after
\* construction and after any sequence of calls, n_points does not change, and the
\* flattened scores of a query on a built field divide into one row of n_points
\* entries per instance.
C16_SampleSizesConstant ==
    /\ n_points = NumPoints
    /\ Len(pointcloud_obj) = n_points
    /\ Len(object_pc) = n_points
    /\ Len(socket_pcl) = n_points
    /\ Len(socket_pc) = n_points
    /\ (IsQuery /\ ret.seen # "unset") =>
          /\ ret.status = "ok"
          /\ Len(Returned) = ret.n * n_points
          /\ Len(ret.rows) = ret.n

\* C17: get_extrinsic_contact with a pose batch whose size differs from num_envs,
\* and apply_transform with a point array whose last dimension is not 3, fail with
\* an error instead of returning a result.
C17_DimensionMismatchFails ==
    /\ (IsQuery /\ ret.n # num_envs) => (ret.status = "error" /\ ret.rows = <<>>)
    /\ (ret.op = "apply_transform" /\ \E p \in 1..Len(ret.pc_vertices) : Len(ret.pc_vertices[p]) # 3)
          => (ret.status = "error" /\ ret.out = <<>>)

\* C18: apply_transform(poses, points) returns an N x P x 3 array with entry [n, p]
\* = R_n * points[p] + t_n, for every N and P; with identity transforms it returns
\* the input points; the fields of the estimator are what they were before the call.
C18_ApplyTransformFormula ==
    (ret.op = "apply_transform" /\ ret.status = "ok") =>
        /\ Len(ret.out) = Len(ret.poses)
        /\ \A n \in 1..Len(ret.poses) :
              /\ Len(ret.out[n]) = Len(ret.pc_vertices)
              /\ \A p \in 1..Len(ret.pc_vertices) :
                    /\ Len(ret.out[n][p]) = 3
                    /\ \A c \in 1..3 :
                          ret.out[n][p][c] =
                              ret.poses[n][c][1] * ret.pc_vertices[p][1]
                              + ret.poses[n][c][2] * ret.pc_vertices[p][2]
                              + ret.poses[n][c][3] * ret.pc_vertices[p][3]
                              + ret.poses[n][c][4]
              /\ ret.poses[n] = Eye4 => ret.out[n] = ret.pc_vertices
        /\ OtherFields = pre

\* a call with N = 2 different transforms, the second not the identity, on P = 3
\* points
C18_Witness ==
    /\ ret.op = "apply_transform"
    /\ ret.status = "ok"
    /\ Len(ret.poses) = 2
    /\ Len(ret.pc_vertices) = 3
    /\ ret.poses[1] = Eye4
    /\ ret.poses[2] # Eye4
    /\ ret.out[2] # ret.pc_vertices

\* point k of a row of flattened coordinates
PointAt(flat, k) == SubSeq(flat, 3 * k - 2, 3 * k)

\* whether the positions idx are distinct positions of a cloud of total points
DistinctPositions(idx, total) ==
    /\ \A k \in 1..Len(idx) : idx[k] \in 1..total
    /\ \A j \in 1..Len(idx), k \in 1..Len(idx) : j # k => idx[j] # idx[k]

\* C19: merge_goal_pcl on a cloud of P points per instance returns per instance
\* exactly P points (3P numbers), point k being the point at position idx[k] of the
\* concatenation [existing cloud; goal points], the positions idx being distinct.
C19_MergeSamplesWithoutReplacement ==
    ret.op = "merge_goal_pcl" =>
        /\ ret.status = "ok"
        /\ Len(ret.out) = Len(ret.pcl)
        /\ \A i \in 1..Len(ret.pcl) :
              LET P == Len(ret.pcl[i])
                  union == ret.pcl[i] \o ret.goal[i]
              IN  /\ Len(ret.out[i]) = 3 * P
                  /\ Len(ret.idx) = P
                  /\ DistinctPositions(ret.idx, Len(union))
                  /\ \A k \in 1..P : PointAt(ret.out[i], k) = union[ret.idx[k]]

\* a merge that returned one point of the existing cloud and one goal point, from a
\* concatenation in which the point (0, 0, 0) occurs in both parts
C19_Witness ==
    /\ ret.op = "merge_goal_pcl"
    /\ \E j \in 1..Len(ret.idx) : ret.idx[j] <= Len(ret.pcl[1])
    /\ \E j \in 1..Len(ret.idx) : ret.idx[j] > Len(ret.pcl[1])
    /\ \E a \in 1..Len(ret.pcl[1]), b \in 1..Len(ret.goal[1]) : ret.pcl[1][a] = ret.goal[1][b]

\* the point R * p + t for the rotation block R and the translation t of T
MovedPoint(T, p) ==
    <<T[1][1] * p[1] + T[1][2] * p[2] + T[1][3] * p[3] + T[1][4],
      T[2][1] * p[1] + T[2][2] * p[2] + T[2][3] * p[3] + T[2][4],
      T[3][1] * p[1] + T[3][2] * p[2] + T[3][3] * p[3] + T[3][4]>>

\* the point at position pos of the concatenation [plug sample at at_object; plug
\* sample at at_socket; socket sample at at_socket]
ConcatenatedPoint(at_object, at_socket, pos) ==
    IF pos <= Len(object_pc) THEN MovedPoint(at_object, object_pc[pos])
    ELSE IF pos <= 2 * Len(object_pc)
         THEN MovedPoint(at_socket, object_pc[pos - Len(object_pc)])
         ELSE MovedPoint(at_socket, socket_pc[pos - 2 * Len(object_pc)])

\* C20: get_pcl returns per instance exactly P points (3P numbers), P the number of
\* points of the plug sample, point k being the point at position idx[k] of the
\* concatenation [plug sample at the object pose; plug sample at the socket pose;
\* socket sample at the socket pose], the positions idx being distinct.
C20_PclSamplesConcatenation ==
    ret.op = "get_pcl" =>
        /\ ret.status = "ok"
        /\ Len(ret.out) = Len(ret.obj_rows)
        /\ Len(ret.idx) = Len(object_pc)
        /\ DistinctPositions(ret.idx, 2 * Len(object_pc) + Len(socket_pc))
        /\ \A i \in 1..Len(ret.obj_rows) :
              LET at_object == XyzquatRow(ret.obj_rows[i])
                  at_socket == XyzquatRow(ret.socket_rows[i])
              IN  /\ Len(ret.out[i]) = 3 * Len(object_pc)
                  /\ \A k \in 1..Len(object_pc) :
                        PointAt(ret.out[i], k)
                            = ConcatenatedPoint(at_object, at_socket, ret.idx[k])

\* a get_pcl call whose positions run from the socket points round to the plug
\* points, for socket poses that are not the identity
C20_Witness ==
    /\ ret.op = "get_pcl"
    /\ ret.socket_rows[1] # <<0, 0, 0, 0, 0, 0, 1>>
    /\ \E j \in 1..Len(ret.idx) : ret.idx[j] <= Len(object_pc)
    /\ \E j \in 1..Len(ret.idx) : ret.idx[j] > 2 * Len(object_pc)

\* the goal point p of an instance: the plug sample's point p times the instance's
\* scale, moved by the instance's socket pose
C21_GoalPoint(socket_row, scale, p) ==
    MovedPoint(XyzquatRow(socket_row), <<object_pc[p][1] * scale, object_pc[p][2] * scale,
                                        object_pc[p][3] * scale>>)

\* C21: get_goal_pcl returns N x P x 3 numbers, P the number of points of the plug
\* sample: entry [i, p] is the socket transform of instance i applied to
\* plug_scale[i] * sample[p], in sample order; the goal points merge_goal_pcl
\* concatenates to the existing cloud are these same points.
C21_GoalCloudIsScaledSample ==
    /\ ret.op = "get_goal_pcl" =>
          /\ ret.status = "ok"
          /\ Len(ret.out) = Len(ret.plug_scale)
          /\ \A i \in 1..Len(ret.out) :
                /\ Len(ret.out[i]) = Len(object_pc)
                /\ \A p \in 1..Len(object_pc) :
                      ret.out[i][p] = C21_GoalPoint(ret.socket_rows[i], ret.plug_scale[i], p)
    /\ ret.op = "merge_goal_pcl" =>
          /\ Len(ret.goal) = Len(ret.plug_scale)
          /\ \A i \in 1..Len(ret.goal) :
                /\ Len(ret.goal[i]) = Len(object_pc)
                /\ \A p \in 1..Len(object_pc) :
                      ret.goal[i][p] = C21_GoalPoint(ret.socket_rows[i], ret.plug_scale[i], p)

\* a goal cloud for socket poses that are not the identity and a scale that is not
\* 1, whose instances differ
C21_Witness ==
    /\ ret.op = "get_goal_pcl"
    /\ ret.socket_rows[1] # <<0, 0, 0, 0, 0, 0, 1>>
    /\ \E i \in 1..Len(ret.plug_scale) : ret.plug_scale[i] > 1
    /\ ret.out[1] # ret.out[2]
    /\ ret.out[2] # object_pc

\* the delta rotation for a previous and a current (normalised) Z axis: the rotation
\* by arccos(prev_z . curr_z) about normalize(cross(prev_z, curr_z)); the identity
\* when the dot product is 1 and when the cross product is the zero vector
C22_DeltaRotation(prev_z, curr_z) ==
    LET cos_dist == Dot(prev_z, curr_z)
        axis0 == Cross(prev_z, curr_z)
    IN  IF cos_dist = 1 \/ axis0 = <<0, 0, 0>> THEN Eye3
        ELSE from_rotvec(VecScale(ArcCos(Clip(cos_dist, 0 - 1, 1)),
                                  VecDiv(axis0, Norm(axis0))))

\* the pose with rotation block delta_rotation @ prev_rotation, the translation of
\* curr and the last row [0, 0, 0, 1]
C22_TrackedPose(curr, prev) ==
    LET prev_rot == RotOf(prev)
        delta == C22_DeltaRotation(ZDir(prev_rot), ZDir(RotOf(NormalizeZInPlace(curr))))
    IN  PoseFrom(MatMul(delta, prev_rot), <<curr[1][4], curr[2][4], curr[3][4]>>,
                 <<0, 0, 0, 1>>)

\* C22: estimate_pose and estimate_pose_batch return, per pose, the 4 x 4 matrix
\* whose rotation block is delta_rotation @ prev_rotation, whose translation is the
\* translation of the current pose and whose last row is [0, 0, 0, 1], the delta
\* rotation being the rotation by arccos(prev_z . curr_z) about
\* normalize(cross(prev_z, curr_z)), or the identity.
C22_TrackedPoseFormula ==
    (ret.op \in {"estimate_pose", "estimate_pose_batch"} /\ ret.status = "ok") =>
        \A i \in 1..Len(ret.out) :
            ret.out[i] = C22_TrackedPose(ret.curr[i],
                                         IF ret.prev[i] = None THEN Eye4 ELSE ret.prev[i])

\* whether the 3 x 3 matrix M is orthonormal
C23_Orthonormal(M) == MatMul(M, Transpose(M)) = Eye3

\* the determinant of the 3 x 3 matrix M
C23_Det(M) ==
    M[1][1] * (M[2][2] * M[3][3] - M[2][3] * M[3][2])
        - M[1][2] * (M[2][1] * M[3][3] - M[2][3] * M[3][1])
        + M[1][3] * (M[2][1] * M[3][2] - M[2][2] * M[3][1])

C24_DropoutBounded ==
    (IsQuery /\ ret.seen # "unset") =>
        LET K == Cardinality({i \in 1..Len(ret.before) : ret.before[i] = ret.threshold})
        IN  /\ Len(Returned) = Len(ret.before)
            /\ \A i \in 1..Len(ret.before) :
                  /\ ret.before[i] # ret.threshold => Returned[i] = ret.before[i]
                  /\ Returned[i] # ret.before[i] => Returned[i] = 0
            /\ Cardinality(Zeroed) <= K \div FracLimitDen
            /\ K < FracLimitDen => Returned = ret.before

\* a call over all instances with at least ten entries at 1.0 and an entry between
\* 0 and 1, in which the dropout zeroed an entry
C24_Witness ==
    /\ QueryOk
    /\ ret.n = num_envs
    /\ Cardinality(Zeroed) >= 1
    /\ \E i \in 1..Len(ret.before) : ret.before[i] > 0 /\ ret.before[i] < ret.threshold

\* the distance from the point of the plug sample moved by the transform T to the
\* nearest point of the cached socket mesh
C26_DistanceToCachedMesh(T, point) ==
    LET moved == MovedPoint(T, point)
    IN  IF socket.triangles = <<>> THEN Inf
        ELSE SetMin({L1(moved, socket.triangles[k]) : k \in 1..Len(socket.triangles)})

\* C26: the result of get_extrinsic_contact does not depend on the socket_pos,
\* socket_quat and plug_scale passed: whatever they are, the scores are those of the
\* distances of the plug sample, moved by the object poses, to the cached socket
\* mesh, for the threshold and the random draws of the call; a call on an estimator
\* without distance field fails whatever is passed.
C26_SocketArgumentsIgnored ==
    IsQuery =>
        IF ret.seen = "unset" THEN ret.status = "error"
        ELSE /\ Len(ret.di) = Len(ret.obj_poses) * Len(object_pc)
             /\ \A i \in 1..Len(ret.obj_poses) :
                   \E T \in {XyzquatRow(ret.obj_poses[i])} :
                       \A p \in 1..Len(object_pc) :
                           ret.di[(i - 1) * Len(object_pc) + p]
                               = C26_DistanceToCachedMesh(T, object_pc[p])
             /\ ret.before = Scores(ret.di, ret.threshold)
             /\ Returned = Dropout(ret.before, ret.zeroed)
             /\ \E v \in {View(Returned, n_points)} :
                   ret.status = v.status /\ ret.rows = v.rows

\* a call that passed a single socket pose far from the cached mesh, and a scale of
\* 3, with the object poses of all instances, and returned scores of which some are
\* not zero
C26_Witness ==
    /\ QueryOk
    /\ ret.n = num_envs
    /\ Len(ret.given.socket_rows) = 1
    /\ ret.given.plug_scale[1] = 3
    /\ \E i \in 1..Len(Returned) : Returned[i] > 0

\* C25: a get_extrinsic_contact call with display off leaves every field of the
\* estimator as it was: the accumulator gt_extrinsic_contact (all zeros, no caller
\* writing it here), the plug sample, the socket mesh, its sample and distance
\* field, and plug_pose_no_rot; so a call finds the estimator as the calls before it
\* found it.
C25_QueryLeavesEstimator ==
    [][(ret'.op = "get_extrinsic_contact" /\ ret.op # "get_extrinsic_contact") =>
          /\ estimator' = estimator
          /\ gt_extrinsic_contact' = Zeros(num_envs, n_points)]_vars

\* a query that returned scores on an estimator whose socket was repositioned
C25_Witness ==
    /\ QueryOk
    /\ resets_completed
    /\ socket_pos = <<0, 0, 5>>
    /\ gt_extrinsic_contact = Zeros(num_envs, n_points)
    /\ \E i \in 1..Len(Returned) : Returned[i] = ret.threshold

\* the socket mesh a single reset_socket_pos(p) leaves on a freshly constructed
\* estimator: the copy of the mesh file saved at construction, moved by p
C27_SingleReset(p) == MeshTranslate(apply_scale(SocketMeshFile, 1), p)

\* C27: after any sequence of repositions that ends with reset_socket_pos(p) the
\* socket mesh, and the distance field built from it, are those a single
\* reset_socket_pos(p) leaves on a freshly constructed estimator (translations do not
\* add up; a last reset that fails leaves the unmoved copy, as it does on a fresh
\* estimator), and reset_socket_trimesh is the mesh saved at construction in every
\* state.
C27_ResetHistoryIndependent ==
    /\ reset_socket_trimesh = SocketMeshFile
    /\ ResetOk =>
          /\ socket_trimesh = C27_SingleReset(arg)
          /\ socket.triangles = C27_SingleReset(arg)
    /\ (ret.op = "reset_socket_pos" /\ ret.status = "error") =>
          socket_trimesh = apply_scale(SocketMeshFile, 1)

\* a reset_socket_pos(p) that returned on an estimator an earlier reset_socket_pos(p)
\* had already moved to p
C27_Witness ==
    /\ ResetOk
    /\ pre # <<>>
    /\ pre[2] = arg
    /\ pre[1] = socket_trimesh
    /\ socket_trimesh # reset_socket_trimesh

\* whether the array after is the array before with its third rotation column
\* replaced by that column divided by its norm, every other entry kept
C28_OnlyZNormalised(before, after) ==
    LET z == <<before[1][3], before[2][3], before[3][3]>>
        u == <<after[1][3], after[2][3], after[3][3]>>
    IN  /\ \A r \in 1..4, c \in 1..4 : (r = 4 \/ c # 3) => after[r][c] = before[r][c]
        /\ \A r \in 1..3 : FMul(u[r], Norm(z)) = z[r]
        /\ Norm(u) = 1

\* C28 as stated: estimate_pose and estimate_pose_batch overwrite the third rotation
\* column of the caller's curr_pose by its normalised value and leave every other
\* entry of curr_pose and the whole of prev_pose as they were.
C28_OnlyCurrentZWritten ==
    (ret.op \in {"estimate_pose", "estimate_pose_same_array", "estimate_pose_batch"}) =>
        /\ Len(ret.curr_after) = Len(ret.curr)
        /\ \A i \in 1..Len(ret.curr) : C28_OnlyZNormalised(ret.curr[i], ret.curr_after[i])
        /\ ret.prev_after = ret.prev

\* C28, amended: both functions overwrite the third rotation column of the caller's
\* curr_pose by its normalised value and leave every other entry of curr_pose as it
\* was; prev_pose is left as it was when it is another array than curr_pose, and
\* when one array is passed as both, prev_pose is that array and has its third
\* column normalised as well.
C28_CurrentZWrittenSharedArrayToo ==
    (ret.op \in {"estimate_pose", "estimate_pose_same_array", "estimate_pose_batch"}) =>
        /\ Len(ret.curr_after) = Len(ret.curr)
        /\ \A i \in 1..Len(ret.curr) : C28_OnlyZNormalised(ret.curr[i], ret.curr_after[i])
        /\ ret.op # "estimate_pose_same_array" => ret.prev_after = ret.prev
        /\ ret.op = "estimate_pose_same_array" => ret.prev_after = ret.curr_after

\* an estimate_pose call on two arrays whose Z columns both have length 2: the
\* current one is normalised in the caller's array, the previous one is not
C28_Witness ==
    /\ ret.op = "estimate_pose"
    /\ ret.prev[1] # None
    /\ ret.curr_after[1] # ret.curr[1]
    /\ Norm(ZDir(RotOf(ret.prev[1]))) = 2
    /\ ret.prev_after[1] = ret.prev[1]

\* the concatenated clouds of the call ret, one per instance
C29_Concatenated ==
    IF ret.op = "merge_goal_pcl"
    THEN [i \in 1..Len(ret.pcl) |-> ret.pcl[i] \o ret.goal[i]]
    ELSE [i \in 1..Len(ret.plug) |-> ret.plug[i] \o ret.plug_goal[i] \o ret.socket[i]]

\* C29: in merge_goal_pcl and in get_pcl one index set serves every instance: for
\* every output position k there is one position of the concatenated clouds from
\* which output point k of every instance comes.
C29_SharedIndexSet ==
    (ret.op \in {"merge_goal_pcl", "get_pcl"}) =>
        \E merged \in {C29_Concatenated} :
            \A k \in 1..(Len(ret.out[1]) \div 3) :
                \E pos \in 1..Len(merged[1]) :
                    \A i \in 1..Len(merged) : PointAt(ret.out[i], k) = merged[i][pos]

\* a merge_goal_pcl call on instances whose existing clouds differ and whose goal
\* points differ, and a get_pcl call on instances at different object and socket
\* poses, each returning different points for two instances
C29_Witness ==
    \/ /\ ret.op = "merge_goal_pcl"
       /\ ret.pcl[1] # ret.pcl[2]
       /\ ret.goal[1] # ret.goal[2]
       /\ ret.out[1] # ret.out[2]
       /\ ret.idx[1] > ret.idx[2]
    \/ /\ ret.op = "get_pcl"
       /\ ret.plug[1] # ret.plug[2]
       /\ ret.socket[1] # ret.socket[2]
       /\ ret.out[1] # ret.out[2]
       /\ ret.idx[1] > ret.idx[2]

----------------------------------------------------------------------------
(* C30: recording *)

\* C30: in any sequence of start_recording, pause_recording and _render_headless calls
\* (and their ft counterparts) start_recording leaves complete_video_frames at None
\* with record_now set, pause_recording leaves it an empty list with record_now
\* cleared, no frame is ever appended to video_frames or ft_frames, and
\* get_complete_frames and get_ft_frames return an empty list, never None.
C30_NoFrameEverRecorded ==
    /\ video_frames = <<>>
    /\ ft_frames = <<>>
    /\ record_now => complete_video_frames = NoFrameList
    /\ record_now_ft => complete_ft_frames = NoFrameList
    /\ (ret.op = "start_recording") => (record_now /\ complete_video_frames.is_none)
    /\ (ret.op = "start_recording_ft") => (record_now_ft /\ complete_ft_frames.is_none)
    /\ (ret.op = "pause_recording") =>
           (~record_now /\ complete_video_frames = FrameList(<<>>))
    /\ (ret.op = "pause_recording_ft") =>
           (~record_now_ft /\ complete_ft_frames = FrameList(<<>>))
    /\ (ret.op \in {"get_complete_frames", "get_ft_frames"}) =>
           (~ret.out.is_none /\ ret.out.list = <<>>)

\* a _render_headless call made while both recordings are switched on, with
\* complete_video_frames at None, for which get_complete_frames gives a list
C30_Witness ==
    /\ ret.op = "_render_headless"
    /\ ret.record_now
    /\ ret.record_now_ft
    /\ complete_video_frames.is_none
    /\ ~CompleteFrames(complete_video_frames).is_none

====
